---- MODULE Spec2Model ----
\* Model of numpy/core/src/common/lapack/accelerate_wrapper.c: 54 wrappers
\* accelerate_<r>, each testing the availability of macOS 13.3 and forwarding
\* its arguments to <r>_ (modern) or <r>$LEGACY (legacy).
\*
\* All parameters of the wrappers are pointers, so an argument is modelled
\* as an address; memory is a map from addresses to cells.  The external
\* entry points are stand-ins that record what they received and write a
\* recognisable pattern and a status through the pointers they were given.
EXTENDS Integers, Sequences, FiniteSets, TLC

\* ------------------------------------------------------------------ bounds
NumThreads == 2
MaxSeed == 2
MaxMajor == 14
MaxMinor == 4
MaxRet == 1

\* ------------------------------------------------- the source, as tables
\* The wrapped routines, in the order of the file.
Routines ==
  {
    "sgeev", "dgeev", "cgeev", "zgeev", "ssyevd", "dsyevd",
    "cheevd", "zheevd", "sgelsd", "dgelsd", "cgelsd", "zgelsd",
    "dgeqrf", "zgeqrf", "dorgqr", "zungqr", "sgesv", "dgesv",
    "cgesv", "zgesv", "sgetrf", "dgetrf", "cgetrf", "zgetrf",
    "spotrf", "dpotrf", "cpotrf", "zpotrf", "sgesdd", "dgesdd",
    "cgesdd", "zgesdd", "spotrs", "dpotrs", "cpotrs", "zpotrs",
    "spotri", "dpotri", "cpotri", "zpotri", "scopy", "dcopy",
    "ccopy", "zcopy", "sdot", "ddot", "cdotu", "zdotu",
    "cdotc", "zdotc", "sgemm", "dgemm", "cgemm", "zgemm"
  }

\* Return type and parameter names of accelerate_<r>, in declaration order.
Signature ==
  [
    sgeev |-> [ret |-> "void", params |-> <<"jobvl", "jobvr", "n", "a", "lda", "wr", "wi", "vl", "ldvl", "vr", "ldvr", "work", "lwork", "info">>],
    dgeev |-> [ret |-> "void", params |-> <<"jobvl", "jobvr", "n", "a", "lda", "wr", "wi", "vl", "ldvl", "vr", "ldvr", "work", "lwork", "info">>],
    cgeev |-> [ret |-> "void", params |-> <<"jobvl", "jobvr", "n", "a", "lda", "w", "vl", "ldvl", "vr", "ldvr", "work", "lwork", "rwork", "info">>],
    zgeev |-> [ret |-> "void", params |-> <<"jobvl", "jobvr", "n", "a", "lda", "w", "vl", "ldvl", "vr", "ldvr", "work", "lwork", "rwork", "info">>],
    ssyevd |-> [ret |-> "void", params |-> <<"jobz", "uplo", "n", "a", "lda", "w", "work", "lwork", "iwork", "liwork", "info">>],
    dsyevd |-> [ret |-> "void", params |-> <<"jobz", "uplo", "n", "a", "lda", "w", "work", "lwork", "iwork", "liwork", "info">>],
    cheevd |-> [ret |-> "void", params |-> <<"jobz", "uplo", "n", "a", "lda", "w", "work", "lwork", "rwork", "lrwork", "iwork", "liwork", "info">>],
    zheevd |-> [ret |-> "void", params |-> <<"jobz", "uplo", "n", "a", "lda", "w", "work", "lwork", "rwork", "lrwork", "iwork", "liwork", "info">>],
    sgelsd |-> [ret |-> "void", params |-> <<"m", "n", "nrhs", "a", "lda", "b", "ldb", "s", "rcond", "rank", "work", "lwork", "iwork", "info">>],
    dgelsd |-> [ret |-> "void", params |-> <<"m", "n", "nrhs", "a", "lda", "b", "ldb", "s", "rcond", "rank", "work", "lwork", "iwork", "info">>],
    cgelsd |-> [ret |-> "void", params |-> <<"m", "n", "nrhs", "a", "lda", "b", "ldb", "s", "rcond", "rank", "work", "lwork", "rwork", "iwork", "info">>],
    zgelsd |-> [ret |-> "void", params |-> <<"m", "n", "nrhs", "a", "lda", "b", "ldb", "s", "rcond", "rank", "work", "lwork", "rwork", "iwork", "info">>],
    dgeqrf |-> [ret |-> "void", params |-> <<"m", "n", "a", "lda", "tau", "work", "lwork", "info">>],
    zgeqrf |-> [ret |-> "void", params |-> <<"m", "n", "a", "lda", "tau", "work", "lwork", "info">>],
    dorgqr |-> [ret |-> "void", params |-> <<"m", "n", "k", "a", "lda", "tau", "work", "lwork", "info">>],
    zungqr |-> [ret |-> "void", params |-> <<"m", "n", "k", "a", "lda", "tau", "work", "lwork", "info">>],
    sgesv |-> [ret |-> "void", params |-> <<"n", "nrhs", "a", "lda", "ipiv", "b", "ldb", "info">>],
    dgesv |-> [ret |-> "void", params |-> <<"n", "nrhs", "a", "lda", "ipiv", "b", "ldb", "info">>],
    cgesv |-> [ret |-> "void", params |-> <<"n", "nrhs", "a", "lda", "ipiv", "b", "ldb", "info">>],
    zgesv |-> [ret |-> "void", params |-> <<"n", "nrhs", "a", "lda", "ipiv", "b", "ldb", "info">>],
    sgetrf |-> [ret |-> "fortran_int", params |-> <<"m", "n", "a", "lda", "ipiv", "info">>],
    dgetrf |-> [ret |-> "fortran_int", params |-> <<"m", "n", "a", "lda", "ipiv", "info">>],
    cgetrf |-> [ret |-> "fortran_int", params |-> <<"m", "n", "a", "lda", "ipiv", "info">>],
    zgetrf |-> [ret |-> "fortran_int", params |-> <<"m", "n", "a", "lda", "ipiv", "info">>],
    spotrf |-> [ret |-> "void", params |-> <<"uplo", "n", "a", "lda", "info">>],
    dpotrf |-> [ret |-> "void", params |-> <<"uplo", "n", "a", "lda", "info">>],
    cpotrf |-> [ret |-> "void", params |-> <<"uplo", "n", "a", "lda", "info">>],
    zpotrf |-> [ret |-> "void", params |-> <<"uplo", "n", "a", "lda", "info">>],
    sgesdd |-> [ret |-> "void", params |-> <<"jobz", "m", "n", "a", "lda", "s", "u", "ldu", "vt", "ldvt", "work", "lwork", "iwork", "info">>],
    dgesdd |-> [ret |-> "void", params |-> <<"jobz", "m", "n", "a", "lda", "s", "u", "ldu", "vt", "ldvt", "work", "lwork", "iwork", "info">>],
    cgesdd |-> [ret |-> "void", params |-> <<"jobz", "m", "n", "a", "lda", "s", "u", "ldu", "vt", "ldvt", "work", "lwork", "rwork", "iwork", "info">>],
    zgesdd |-> [ret |-> "void", params |-> <<"jobz", "m", "n", "a", "lda", "s", "u", "ldu", "vt", "ldvt", "work", "lwork", "rwork", "iwork", "info">>],
    spotrs |-> [ret |-> "void", params |-> <<"uplo", "n", "nrhs", "a", "lda", "b", "ldb", "info">>],
    dpotrs |-> [ret |-> "void", params |-> <<"uplo", "n", "nrhs", "a", "lda", "b", "ldb", "info">>],
    cpotrs |-> [ret |-> "void", params |-> <<"uplo", "n", "nrhs", "a", "lda", "b", "ldb", "info">>],
    zpotrs |-> [ret |-> "void", params |-> <<"uplo", "n", "nrhs", "a", "lda", "b", "ldb", "info">>],
    spotri |-> [ret |-> "void", params |-> <<"uplo", "n", "a", "lda", "info">>],
    dpotri |-> [ret |-> "void", params |-> <<"uplo", "n", "a", "lda", "info">>],
    cpotri |-> [ret |-> "void", params |-> <<"uplo", "n", "a", "lda", "info">>],
    zpotri |-> [ret |-> "void", params |-> <<"uplo", "n", "a", "lda", "info">>],
    scopy |-> [ret |-> "fortran_int", params |-> <<"n", "sx", "incx", "sy", "incy">>],
    dcopy |-> [ret |-> "fortran_int", params |-> <<"n", "sx", "incx", "sy", "incy">>],
    ccopy |-> [ret |-> "fortran_int", params |-> <<"n", "sx", "incx", "sy", "incy">>],
    zcopy |-> [ret |-> "fortran_int", params |-> <<"n", "sx", "incx", "sy", "incy">>],
    sdot |-> [ret |-> "float", params |-> <<"n", "sx", "incx", "sy", "incy">>],
    ddot |-> [ret |-> "double", params |-> <<"n", "sx", "incx", "sy", "incy">>],
    cdotu |-> [ret |-> "void", params |-> <<"ret", "n", "sx", "incx", "sy", "incy">>],
    zdotu |-> [ret |-> "void", params |-> <<"ret", "n", "sx", "incx", "sy", "incy">>],
    cdotc |-> [ret |-> "void", params |-> <<"ret", "n", "sx", "incx", "sy", "incy">>],
    zdotc |-> [ret |-> "void", params |-> <<"ret", "n", "sx", "incx", "sy", "incy">>],
    sgemm |-> [ret |-> "void", params |-> <<"transa", "transb", "m", "n", "k", "alpha", "a", "lda", "b", "ldb", "beta", "c", "ldc">>],
    dgemm |-> [ret |-> "void", params |-> <<"transa", "transb", "m", "n", "k", "alpha", "a", "lda", "b", "ldb", "beta", "c", "ldc">>],
    cgemm |-> [ret |-> "void", params |-> <<"transa", "transb", "m", "n", "k", "alpha", "a", "lda", "b", "ldb", "beta", "c", "ldc">>],
    zgemm |-> [ret |-> "void", params |-> <<"transa", "transb", "m", "n", "k", "alpha", "a", "lda", "b", "ldb", "beta", "c", "ldc">>]
  ]

\* Variant: the copy wrappers were written against a later release.
GateMixed ==
  [r \in Routines |->
     IF r \in {"scopy", "dcopy", "ccopy", "zcopy"}
     THEN [platform |-> "macos", major |-> 13, minor |-> 4]
     ELSE [platform |-> "macos", major |-> 13, minor |-> 3]]

\* The argument of __builtin_available in the body of accelerate_<r>.
Gate ==
  [
    sgeev |-> [platform |-> "macos", major |-> 13, minor |-> 3],
    dgeev |-> [platform |-> "macos", major |-> 13, minor |-> 3],
    cgeev |-> [platform |-> "macos", major |-> 13, minor |-> 3],
    zgeev |-> [platform |-> "macos", major |-> 13, minor |-> 3],
    ssyevd |-> [platform |-> "macos", major |-> 13, minor |-> 3],
    dsyevd |-> [platform |-> "macos", major |-> 13, minor |-> 3],
    cheevd |-> [platform |-> "macos", major |-> 13, minor |-> 3],
    zheevd |-> [platform |-> "macos", major |-> 13, minor |-> 3],
    sgelsd |-> [platform |-> "macos", major |-> 13, minor |-> 3],
    dgelsd |-> [platform |-> "macos", major |-> 13, minor |-> 3],
    cgelsd |-> [platform |-> "macos", major |-> 13, minor |-> 3],
    zgelsd |-> [platform |-> "macos", major |-> 13, minor |-> 3],
    dgeqrf |-> [platform |-> "macos", major |-> 13, minor |-> 3],
    zgeqrf |-> [platform |-> "macos", major |-> 13, minor |-> 3],
    dorgqr |-> [platform |-> "macos", major |-> 13, minor |-> 3],
    zungqr |-> [platform |-> "macos", major |-> 13, minor |-> 3],
    sgesv |-> [platform |-> "macos", major |-> 13, minor |-> 3],
    dgesv |-> [platform |-> "macos", major |-> 13, minor |-> 3],
    cgesv |-> [platform |-> "macos", major |-> 13, minor |-> 3],
    zgesv |-> [platform |-> "macos", major |-> 13, minor |-> 3],
    sgetrf |-> [platform |-> "macos", major |-> 13, minor |-> 3],
    dgetrf |-> [platform |-> "macos", major |-> 13, minor |-> 3],
    cgetrf |-> [platform |-> "macos", major |-> 13, minor |-> 3],
    zgetrf |-> [platform |-> "macos", major |-> 13, minor |-> 3],
    spotrf |-> [platform |-> "macos", major |-> 13, minor |-> 3],
    dpotrf |-> [platform |-> "macos", major |-> 13, minor |-> 3],
    cpotrf |-> [platform |-> "macos", major |-> 13, minor |-> 3],
    zpotrf |-> [platform |-> "macos", major |-> 13, minor |-> 3],
    sgesdd |-> [platform |-> "macos", major |-> 13, minor |-> 3],
    dgesdd |-> [platform |-> "macos", major |-> 13, minor |-> 3],
    cgesdd |-> [platform |-> "macos", major |-> 13, minor |-> 3],
    zgesdd |-> [platform |-> "macos", major |-> 13, minor |-> 3],
    spotrs |-> [platform |-> "macos", major |-> 13, minor |-> 3],
    dpotrs |-> [platform |-> "macos", major |-> 13, minor |-> 3],
    cpotrs |-> [platform |-> "macos", major |-> 13, minor |-> 3],
    zpotrs |-> [platform |-> "macos", major |-> 13, minor |-> 3],
    spotri |-> [platform |-> "macos", major |-> 13, minor |-> 3],
    dpotri |-> [platform |-> "macos", major |-> 13, minor |-> 3],
    cpotri |-> [platform |-> "macos", major |-> 13, minor |-> 3],
    zpotri |-> [platform |-> "macos", major |-> 13, minor |-> 3],
    scopy |-> [platform |-> "macos", major |-> 13, minor |-> 3],
    dcopy |-> [platform |-> "macos", major |-> 13, minor |-> 3],
    ccopy |-> [platform |-> "macos", major |-> 13, minor |-> 3],
    zcopy |-> [platform |-> "macos", major |-> 13, minor |-> 3],
    sdot |-> [platform |-> "macos", major |-> 13, minor |-> 3],
    ddot |-> [platform |-> "macos", major |-> 13, minor |-> 3],
    cdotu |-> [platform |-> "macos", major |-> 13, minor |-> 3],
    zdotu |-> [platform |-> "macos", major |-> 13, minor |-> 3],
    cdotc |-> [platform |-> "macos", major |-> 13, minor |-> 3],
    zdotc |-> [platform |-> "macos", major |-> 13, minor |-> 3],
    sgemm |-> [platform |-> "macos", major |-> 13, minor |-> 3],
    dgemm |-> [platform |-> "macos", major |-> 13, minor |-> 3],
    cgemm |-> [platform |-> "macos", major |-> 13, minor |-> 3],
    zgemm |-> [platform |-> "macos", major |-> 13, minor |-> 3]
  ]

\* The call in the then-branch: callee, actual arguments in call order, and
\* whether the statement is "return <call>;".
ModernCall ==
  [
    sgeev |-> [sym |-> "sgeev_", args |-> <<"jobvl", "jobvr", "n", "a", "lda", "wr", "wi", "vl", "ldvl", "vr", "ldvr", "work", "lwork", "info">>, returned |-> FALSE],
    dgeev |-> [sym |-> "dgeev_", args |-> <<"jobvl", "jobvr", "n", "a", "lda", "wr", "wi", "vl", "ldvl", "vr", "ldvr", "work", "lwork", "info">>, returned |-> FALSE],
    cgeev |-> [sym |-> "cgeev_", args |-> <<"jobvl", "jobvr", "n", "a", "lda", "w", "vl", "ldvl", "vr", "ldvr", "work", "lwork", "rwork", "info">>, returned |-> FALSE],
    zgeev |-> [sym |-> "zgeev_", args |-> <<"jobvl", "jobvr", "n", "a", "lda", "w", "vl", "ldvl", "vr", "ldvr", "work", "lwork", "rwork", "info">>, returned |-> FALSE],
    ssyevd |-> [sym |-> "ssyevd_", args |-> <<"jobz", "uplo", "n", "a", "lda", "w", "work", "lwork", "iwork", "liwork", "info">>, returned |-> FALSE],
    dsyevd |-> [sym |-> "dsyevd_", args |-> <<"jobz", "uplo", "n", "a", "lda", "w", "work", "lwork", "iwork", "liwork", "info">>, returned |-> FALSE],
    cheevd |-> [sym |-> "cheevd_", args |-> <<"jobz", "uplo", "n", "a", "lda", "w", "work", "lwork", "rwork", "lrwork", "iwork", "liwork", "info">>, returned |-> FALSE],
    zheevd |-> [sym |-> "zheevd_", args |-> <<"jobz", "uplo", "n", "a", "lda", "w", "work", "lwork", "rwork", "lrwork", "iwork", "liwork", "info">>, returned |-> FALSE],
    sgelsd |-> [sym |-> "sgelsd_", args |-> <<"m", "n", "nrhs", "a", "lda", "b", "ldb", "s", "rcond", "rank", "work", "lwork", "iwork", "info">>, returned |-> FALSE],
    dgelsd |-> [sym |-> "dgelsd_", args |-> <<"m", "n", "nrhs", "a", "lda", "b", "ldb", "s", "rcond", "rank", "work", "lwork", "iwork", "info">>, returned |-> FALSE],
    cgelsd |-> [sym |-> "cgelsd_", args |-> <<"m", "n", "nrhs", "a", "lda", "b", "ldb", "s", "rcond", "rank", "work", "lwork", "rwork", "iwork", "info">>, returned |-> FALSE],
    zgelsd |-> [sym |-> "zgelsd_", args |-> <<"m", "n", "nrhs", "a", "lda", "b", "ldb", "s", "rcond", "rank", "work", "lwork", "rwork", "iwork", "info">>, returned |-> FALSE],
    dgeqrf |-> [sym |-> "dgeqrf_", args |-> <<"m", "n", "a", "lda", "tau", "work", "lwork", "info">>, returned |-> FALSE],
    zgeqrf |-> [sym |-> "zgeqrf_", args |-> <<"m", "n", "a", "lda", "tau", "work", "lwork", "info">>, returned |-> FALSE],
    dorgqr |-> [sym |-> "dorgqr_", args |-> <<"m", "n", "k", "a", "lda", "tau", "work", "lwork", "info">>, returned |-> FALSE],
    zungqr |-> [sym |-> "zungqr_", args |-> <<"m", "n", "k", "a", "lda", "tau", "work", "lwork", "info">>, returned |-> FALSE],
    sgesv |-> [sym |-> "sgesv_", args |-> <<"n", "nrhs", "a", "lda", "ipiv", "b", "ldb", "info">>, returned |-> FALSE],
    dgesv |-> [sym |-> "dgesv_", args |-> <<"n", "nrhs", "a", "lda", "ipiv", "b", "ldb", "info">>, returned |-> FALSE],
    cgesv |-> [sym |-> "cgesv_", args |-> <<"n", "nrhs", "a", "lda", "ipiv", "b", "ldb", "info">>, returned |-> FALSE],
    zgesv |-> [sym |-> "zgesv_", args |-> <<"n", "nrhs", "a", "lda", "ipiv", "b", "ldb", "info">>, returned |-> FALSE],
    sgetrf |-> [sym |-> "sgetrf_", args |-> <<"m", "n", "a", "lda", "ipiv", "info">>, returned |-> FALSE],
    dgetrf |-> [sym |-> "dgetrf_", args |-> <<"m", "n", "a", "lda", "ipiv", "info">>, returned |-> FALSE],
    cgetrf |-> [sym |-> "cgetrf_", args |-> <<"m", "n", "a", "lda", "ipiv", "info">>, returned |-> FALSE],
    zgetrf |-> [sym |-> "zgetrf_", args |-> <<"m", "n", "a", "lda", "ipiv", "info">>, returned |-> FALSE],
    spotrf |-> [sym |-> "spotrf_", args |-> <<"uplo", "n", "a", "lda", "info">>, returned |-> FALSE],
    dpotrf |-> [sym |-> "dpotrf_", args |-> <<"uplo", "n", "a", "lda", "info">>, returned |-> FALSE],
    cpotrf |-> [sym |-> "cpotrf_", args |-> <<"uplo", "n", "a", "lda", "info">>, returned |-> FALSE],
    zpotrf |-> [sym |-> "zpotrf_", args |-> <<"uplo", "n", "a", "lda", "info">>, returned |-> FALSE],
    sgesdd |-> [sym |-> "sgesdd_", args |-> <<"jobz", "m", "n", "a", "lda", "s", "u", "ldu", "vt", "ldvt", "work", "lwork", "iwork", "info">>, returned |-> FALSE],
    dgesdd |-> [sym |-> "dgesdd_", args |-> <<"jobz", "m", "n", "a", "lda", "s", "u", "ldu", "vt", "ldvt", "work", "lwork", "iwork", "info">>, returned |-> FALSE],
    cgesdd |-> [sym |-> "cgesdd_", args |-> <<"jobz", "m", "n", "a", "lda", "s", "u", "ldu", "vt", "ldvt", "work", "lwork", "rwork", "iwork", "info">>, returned |-> FALSE],
    zgesdd |-> [sym |-> "zgesdd_", args |-> <<"jobz", "m", "n", "a", "lda", "s", "u", "ldu", "vt", "ldvt", "work", "lwork", "rwork", "iwork", "info">>, returned |-> FALSE],
    spotrs |-> [sym |-> "spotrs_", args |-> <<"uplo", "n", "nrhs", "a", "lda", "b", "ldb", "info">>, returned |-> FALSE],
    dpotrs |-> [sym |-> "dpotrs_", args |-> <<"uplo", "n", "nrhs", "a", "lda", "b", "ldb", "info">>, returned |-> FALSE],
    cpotrs |-> [sym |-> "cpotrs_", args |-> <<"uplo", "n", "nrhs", "a", "lda", "b", "ldb", "info">>, returned |-> FALSE],
    zpotrs |-> [sym |-> "zpotrs_", args |-> <<"uplo", "n", "nrhs", "a", "lda", "b", "ldb", "info">>, returned |-> FALSE],
    spotri |-> [sym |-> "spotri_", args |-> <<"uplo", "n", "a", "lda", "info">>, returned |-> FALSE],
    dpotri |-> [sym |-> "dpotri_", args |-> <<"uplo", "n", "a", "lda", "info">>, returned |-> FALSE],
    cpotri |-> [sym |-> "cpotri_", args |-> <<"uplo", "n", "a", "lda", "info">>, returned |-> FALSE],
    zpotri |-> [sym |-> "zpotri_", args |-> <<"uplo", "n", "a", "lda", "info">>, returned |-> FALSE],
    scopy |-> [sym |-> "scopy_", args |-> <<"n", "sx", "incx", "sy", "incy">>, returned |-> FALSE],
    dcopy |-> [sym |-> "dcopy_", args |-> <<"n", "sx", "incx", "sy", "incy">>, returned |-> FALSE],
    ccopy |-> [sym |-> "ccopy_", args |-> <<"n", "sx", "incx", "sy", "incy">>, returned |-> FALSE],
    zcopy |-> [sym |-> "zcopy_", args |-> <<"n", "sx", "incx", "sy", "incy">>, returned |-> FALSE],
    sdot |-> [sym |-> "sdot_", args |-> <<"n", "sx", "incx", "sy", "incy">>, returned |-> FALSE],
    ddot |-> [sym |-> "ddot_", args |-> <<"n", "sx", "incx", "sy", "incy">>, returned |-> FALSE],
    cdotu |-> [sym |-> "cdotu_", args |-> <<"ret", "n", "sx", "incx", "sy", "incy">>, returned |-> FALSE],
    zdotu |-> [sym |-> "zdotu_", args |-> <<"ret", "n", "sx", "incx", "sy", "incy">>, returned |-> FALSE],
    cdotc |-> [sym |-> "cdotc_", args |-> <<"ret", "n", "sx", "incx", "sy", "incy">>, returned |-> FALSE],
    zdotc |-> [sym |-> "zdotc_", args |-> <<"ret", "n", "sx", "incx", "sy", "incy">>, returned |-> FALSE],
    sgemm |-> [sym |-> "sgemm_", args |-> <<"transa", "transb", "m", "n", "k", "alpha", "a", "lda", "b", "ldb", "beta", "c", "ldc">>, returned |-> FALSE],
    dgemm |-> [sym |-> "dgemm_", args |-> <<"transa", "transb", "m", "n", "k", "alpha", "a", "lda", "b", "ldb", "beta", "c", "ldc">>, returned |-> FALSE],
    cgemm |-> [sym |-> "cgemm_", args |-> <<"transa", "transb", "m", "n", "k", "alpha", "a", "lda", "b", "ldb", "beta", "c", "ldc">>, returned |-> FALSE],
    zgemm |-> [sym |-> "zgemm_", args |-> <<"transa", "transb", "m", "n", "k", "alpha", "a", "lda", "b", "ldb", "beta", "c", "ldc">>, returned |-> FALSE]
  ]

\* The call in the else-branch.
LegacyCall ==
  [
    sgeev |-> [sym |-> "sgeev$LEGACY", args |-> <<"jobvl", "jobvr", "n", "a", "lda", "wr", "wi", "vl", "ldvl", "vr", "ldvr", "work", "lwork", "info">>, returned |-> FALSE],
    dgeev |-> [sym |-> "dgeev$LEGACY", args |-> <<"jobvl", "jobvr", "n", "a", "lda", "wr", "wi", "vl", "ldvl", "vr", "ldvr", "work", "lwork", "info">>, returned |-> FALSE],
    cgeev |-> [sym |-> "cgeev$LEGACY", args |-> <<"jobvl", "jobvr", "n", "a", "lda", "w", "vl", "ldvl", "vr", "ldvr", "work", "lwork", "rwork", "info">>, returned |-> FALSE],
    zgeev |-> [sym |-> "zgeev$LEGACY", args |-> <<"jobvl", "jobvr", "n", "a", "lda", "w", "vl", "ldvl", "vr", "ldvr", "work", "lwork", "rwork", "info">>, returned |-> FALSE],
    ssyevd |-> [sym |-> "ssyevd$LEGACY", args |-> <<"jobz", "uplo", "n", "a", "lda", "w", "work", "lwork", "iwork", "liwork", "info">>, returned |-> FALSE],
    dsyevd |-> [sym |-> "dsyevd$LEGACY", args |-> <<"jobz", "uplo", "n", "a", "lda", "w", "work", "lwork", "iwork", "liwork", "info">>, returned |-> FALSE],
    cheevd |-> [sym |-> "cheevd$LEGACY", args |-> <<"jobz", "uplo", "n", "a", "lda", "w", "work", "lwork", "rwork", "lrwork", "iwork", "liwork", "info">>, returned |-> FALSE],
    zheevd |-> [sym |-> "zheevd$LEGACY", args |-> <<"jobz", "uplo", "n", "a", "lda", "w", "work", "lwork", "rwork", "lrwork", "iwork", "liwork", "info">>, returned |-> FALSE],
    sgelsd |-> [sym |-> "sgelsd$LEGACY", args |-> <<"m", "n", "nrhs", "a", "lda", "b", "ldb", "s", "rcond", "rank", "work", "lwork", "iwork", "info">>, returned |-> FALSE],
    dgelsd |-> [sym |-> "dgelsd$LEGACY", args |-> <<"m", "n", "nrhs", "a", "lda", "b", "ldb", "s", "rcond", "rank", "work", "lwork", "iwork", "info">>, returned |-> FALSE],
    cgelsd |-> [sym |-> "cgelsd$LEGACY", args |-> <<"m", "n", "nrhs", "a", "lda", "b", "ldb", "s", "rcond", "rank", "work", "lwork", "rwork", "iwork", "info">>, returned |-> FALSE],
    zgelsd |-> [sym |-> "zgelsd$LEGACY", args |-> <<"m", "n", "nrhs", "a", "lda", "b", "ldb", "s", "rcond", "rank", "work", "lwork", "rwork", "iwork", "info">>, returned |-> FALSE],
    dgeqrf |-> [sym |-> "dgeqrf$LEGACY", args |-> <<"m", "n", "a", "lda", "tau", "work", "lwork", "info">>, returned |-> FALSE],
    zgeqrf |-> [sym |-> "zgeqrf$LEGACY", args |-> <<"m", "n", "a", "lda", "tau", "work", "lwork", "info">>, returned |-> FALSE],
    dorgqr |-> [sym |-> "dorgqr$LEGACY", args |-> <<"m", "n", "k", "a", "lda", "tau", "work", "lwork", "info">>, returned |-> FALSE],
    zungqr |-> [sym |-> "zungqr$LEGACY", args |-> <<"m", "n", "k", "a", "lda", "tau", "work", "lwork", "info">>, returned |-> FALSE],
    sgesv |-> [sym |-> "sgesv$LEGACY", args |-> <<"n", "nrhs", "a", "lda", "ipiv", "b", "ldb", "info">>, returned |-> FALSE],
    dgesv |-> [sym |-> "dgesv$LEGACY", args |-> <<"n", "nrhs", "a", "lda", "ipiv", "b", "ldb", "info">>, returned |-> FALSE],
    cgesv |-> [sym |-> "cgesv$LEGACY", args |-> <<"n", "nrhs", "a", "lda", "ipiv", "b", "ldb", "info">>, returned |-> FALSE],
    zgesv |-> [sym |-> "zgesv$LEGACY", args |-> <<"n", "nrhs", "a", "lda", "ipiv", "b", "ldb", "info">>, returned |-> FALSE],
    sgetrf |-> [sym |-> "sgetrf$LEGACY", args |-> <<"m", "n", "a", "lda", "ipiv", "info">>, returned |-> FALSE],
    dgetrf |-> [sym |-> "dgetrf$LEGACY", args |-> <<"m", "n", "a", "lda", "ipiv", "info">>, returned |-> FALSE],
    cgetrf |-> [sym |-> "cgetrf$LEGACY", args |-> <<"m", "n", "a", "lda", "ipiv", "info">>, returned |-> FALSE],
    zgetrf |-> [sym |-> "zgetrf$LEGACY", args |-> <<"m", "n", "a", "lda", "ipiv", "info">>, returned |-> FALSE],
    spotrf |-> [sym |-> "spotrf$LEGACY", args |-> <<"uplo", "n", "a", "lda", "info">>, returned |-> FALSE],
    dpotrf |-> [sym |-> "dpotrf$LEGACY", args |-> <<"uplo", "n", "a", "lda", "info">>, returned |-> FALSE],
    cpotrf |-> [sym |-> "cpotrf$LEGACY", args |-> <<"uplo", "n", "a", "lda", "info">>, returned |-> FALSE],
    zpotrf |-> [sym |-> "zpotrf$LEGACY", args |-> <<"uplo", "n", "a", "lda", "info">>, returned |-> FALSE],
    sgesdd |-> [sym |-> "sgesdd$LEGACY", args |-> <<"jobz", "m", "n", "a", "lda", "s", "u", "ldu", "vt", "ldvt", "work", "lwork", "iwork", "info">>, returned |-> FALSE],
    dgesdd |-> [sym |-> "dgesdd$LEGACY", args |-> <<"jobz", "m", "n", "a", "lda", "s", "u", "ldu", "vt", "ldvt", "work", "lwork", "iwork", "info">>, returned |-> FALSE],
    cgesdd |-> [sym |-> "cgesdd$LEGACY", args |-> <<"jobz", "m", "n", "a", "lda", "s", "u", "ldu", "vt", "ldvt", "work", "lwork", "rwork", "iwork", "info">>, returned |-> FALSE],
    zgesdd |-> [sym |-> "zgesdd$LEGACY", args |-> <<"jobz", "m", "n", "a", "lda", "s", "u", "ldu", "vt", "ldvt", "work", "lwork", "rwork", "iwork", "info">>, returned |-> FALSE],
    spotrs |-> [sym |-> "spotrs$LEGACY", args |-> <<"uplo", "n", "nrhs", "a", "lda", "b", "ldb", "info">>, returned |-> FALSE],
    dpotrs |-> [sym |-> "dpotrs$LEGACY", args |-> <<"uplo", "n", "nrhs", "a", "lda", "b", "ldb", "info">>, returned |-> FALSE],
    cpotrs |-> [sym |-> "cpotrs$LEGACY", args |-> <<"uplo", "n", "nrhs", "a", "lda", "b", "ldb", "info">>, returned |-> FALSE],
    zpotrs |-> [sym |-> "zpotrs$LEGACY", args |-> <<"uplo", "n", "nrhs", "a", "lda", "b", "ldb", "info">>, returned |-> FALSE],
    spotri |-> [sym |-> "spotri$LEGACY", args |-> <<"uplo", "n", "a", "lda", "info">>, returned |-> FALSE],
    dpotri |-> [sym |-> "dpotri$LEGACY", args |-> <<"uplo", "n", "a", "lda", "info">>, returned |-> FALSE],
    cpotri |-> [sym |-> "cpotri$LEGACY", args |-> <<"uplo", "n", "a", "lda", "info">>, returned |-> FALSE],
    zpotri |-> [sym |-> "zpotri$LEGACY", args |-> <<"uplo", "n", "a", "lda", "info">>, returned |-> FALSE],
    scopy |-> [sym |-> "scopy$LEGACY", args |-> <<"n", "sx", "incx", "sy", "incy">>, returned |-> FALSE],
    dcopy |-> [sym |-> "dcopy$LEGACY", args |-> <<"n", "sx", "incx", "sy", "incy">>, returned |-> FALSE],
    ccopy |-> [sym |-> "ccopy$LEGACY", args |-> <<"n", "sx", "incx", "sy", "incy">>, returned |-> FALSE],
    zcopy |-> [sym |-> "zcopy$LEGACY", args |-> <<"n", "sx", "incx", "sy", "incy">>, returned |-> FALSE],
    sdot |-> [sym |-> "sdot$LEGACY", args |-> <<"n", "sx", "incx", "sy", "incy">>, returned |-> FALSE],
    ddot |-> [sym |-> "ddot$LEGACY", args |-> <<"n", "sx", "incx", "sy", "incy">>, returned |-> FALSE],
    cdotu |-> [sym |-> "cdotu$LEGACY", args |-> <<"ret", "n", "sx", "incx", "sy", "incy">>, returned |-> FALSE],
    zdotu |-> [sym |-> "zdotu$LEGACY", args |-> <<"ret", "n", "sx", "incx", "sy", "incy">>, returned |-> FALSE],
    cdotc |-> [sym |-> "cdotc$LEGACY", args |-> <<"ret", "n", "sx", "incx", "sy", "incy">>, returned |-> FALSE],
    zdotc |-> [sym |-> "zdotc$LEGACY", args |-> <<"ret", "n", "sx", "incx", "sy", "incy">>, returned |-> FALSE],
    sgemm |-> [sym |-> "sgemm$LEGACY", args |-> <<"transa", "transb", "m", "n", "k", "alpha", "a", "lda", "b", "ldb", "beta", "c", "ldc">>, returned |-> FALSE],
    dgemm |-> [sym |-> "dgemm$LEGACY", args |-> <<"transa", "transb", "m", "n", "k", "alpha", "a", "lda", "b", "ldb", "beta", "c", "ldc">>, returned |-> FALSE],
    cgemm |-> [sym |-> "cgemm$LEGACY", args |-> <<"transa", "transb", "m", "n", "k", "alpha", "a", "lda", "b", "ldb", "beta", "c", "ldc">>, returned |-> FALSE],
    zgemm |-> [sym |-> "zgemm$LEGACY", args |-> <<"transa", "transb", "m", "n", "k", "alpha", "a", "lda", "b", "ldb", "beta", "c", "ldc">>, returned |-> FALSE]
  ]

\* ------------------------------------------------------------ environment
Threads == 1..NumThreads

\* The one caller of the sequential specifications.
SeqThreads == {1}

\* Routines, argument vectors and hosts exercised by the interleaved calls.
ConcRoutines == {"sgemm", "sgesv", "sdot", "cdotu"}

ConcSeeds == {1}

Seeds == 1..MaxSeed

\* Hosts: macOS around the 13.3 boundary, and another Apple platform whose
\* version numbers run over the same range.
Versions == [major : 12..MaxMajor, minor : 2..MaxMinor]

Hosts == {[platform |-> p, major |-> v.major, minor |-> v.minor] :
            p \in {"macos", "other"}, v \in Versions}

\* Hosts on both sides of the boundary, for the runs that remember a call
\* and the runs that interleave calls.
BoundaryHosts ==
  {h \in Hosts : \/ h.platform = "macos" /\ h.major = 13 /\ h.minor \in {2, 3}
                 \/ h.platform = "macos" /\ h.major = 12 /\ h.minor = 4
                 \/ h.platform = "other" /\ h.major = 12 /\ h.minor = 2}

\* Values an entry point can write to info / return.
Statuses == {-1, 0, 7}

RetVals == 0..MaxRet

\* Longest parameter list; argument vectors are laid out with this stride.
Stride ==
  CHOOSE n \in 1..32 : /\ \A r \in Routines : Len(Signature[r].params) <= n
                       /\ \E r \in Routines : Len(Signature[r].params) = n

Base(t, s) == ((t - 1) * MaxSeed + (s - 1)) * Stride

\* The caller's argument vector: one distinct buffer per parameter, disjoint
\* from the buffers of every other thread and seed.
ArgVec(t, s, r) == [i \in 1..Len(Signature[r].params) |-> Base(t, s) + i]

Unset == [by |-> "caller", val |-> 0]

NoValue == [has |-> FALSE, val |-> 0]

NoCall == [routine |-> "none", args |-> <<>>]

NoMark == [routine |-> "none", branch |-> "none", cap |-> FALSE]

Range(f) == {f[i] : i \in DOMAIN f}

\* The addresses of thread t's buffers.
Owned(t) == (Base(t, 1) + 1)..(Base(t, MaxSeed) + Stride)

\* Memory once thread t has dropped its old buffers and set up the buffers
\* of argv, each filled with the caller's sentinel.
Fresh(m, t, argv) ==
  [a \in (DOMAIN m \ Owned(t)) \cup Range(argv) |->
     IF a \in Range(argv) THEN Unset ELSE m[a]]

\* ------------------------------------------------------------------ state
VARIABLES
  host,     \* the running platform and OS version
  pc,       \* per thread: "idle", "entered", "selected", "invoked", "returned"
  cur,      \* per thread: the call in progress (routine, caller's arguments)
  branch,   \* per thread: the block selected by the availability test
  trace,    \* per thread: entry-point invocations of the call in progress
  mem,      \* memory cells, by address
  ret,      \* per thread: the value the wrapper returned
  mark,     \* an earlier completed call the caller remembers
  cached    \* the block a memoizing router fixed at process start, or "unset"

vars == <<host, pc, cur, branch, trace, mem, ret, mark, cached>>

\* ------------------------------------------------------------ the wrapper
IndexOf(seq, x) == CHOOSE i \in 1..Len(seq) : seq[i] = x

\* Position of the status parameter, 0 when the routine has none.
InfoPos(r) ==
  IF \E i \in 1..Len(Signature[r].params) : Signature[r].params[i] = "info"
  THEN IndexOf(Signature[r].params, "info") ELSE 0

\* Variant: the boundary version itself is excluded.
VersionAtLeastStrict(h, g) ==
  \/ h.major > g.major
  \/ h.major = g.major /\ h.minor > g.minor

\* host version >= gate version, compared (major, minor).
VersionAtLeast(h, g) ==
  \/ h.major > g.major
  \/ h.major = g.major /\ h.minor >= g.minor

\* Variant: a platform that is not named fails the test.
AvailableNoWildcard(h, g) ==
  h.platform = g.platform /\ VersionAtLeast(h, g)

\* The availability test for macOS 13.3 or any other platform: the
\* version test on the named
\* platform, and true on every platform matched by the wildcard.
Available(h, g) ==
  IF h.platform = g.platform THEN VersionAtLeast(h, g) ELSE TRUE

\* Variant: the block is chosen once and reused by later calls.
BranchCached(r, h) ==
  IF mark.routine # "none" THEN mark.branch
  ELSE IF Available(h, Gate[r]) THEN "modern" ELSE "legacy"

\* Variant: a routine alternates between its two blocks.
BranchFlapping(r, h) ==
  IF mark.routine = r
  THEN (IF mark.branch = "modern" THEN "legacy" ELSE "modern")
  ELSE IF Available(h, Gate[r]) THEN "modern" ELSE "legacy"

\* Variant: the two blocks are exchanged.
BranchNegated(r, h) ==
  IF Available(h, Gate[r]) THEN "legacy" ELSE "modern"

\* Which block of the if/else runs.
Branch(r, h) == IF Available(h, Gate[r]) THEN "modern" ELSE "legacy"

\* Variant: copy-and-paste slips: the single-complex solver calls the
\* double-complex entry points, the conjugated dot product the plain one.
TargetOtherRoutine(r, b) ==
  LET q == IF r = "cgesv" THEN "zgesv"
           ELSE IF r = "cdotc" THEN "cdotu" ELSE r
  IN  IF b = "modern" THEN ModernCall[q] ELSE LegacyCall[q]

\* The symbol a routine has in the current framework: the Fortran name.
ModernName(r) == r \o "_"

\* __TEMPLATE_FUNC: the symbol a routine has in the legacy headers.
LegacyName(r) == r \o "$LEGACY"

\* The call statement of a block.
Target(r, b) == IF b = "modern" THEN ModernCall[r] ELSE LegacyCall[r]

\* Variant: the first two actuals are exchanged.
ForwardSwapped(r, call, argv) ==
  [i \in 1..Len(call.args) |->
     LET j == IF i = 1 THEN 2 ELSE IF i = 2 THEN 1 ELSE i
     IN  argv[IndexOf(Signature[r].params, call.args[j])]]

\* Variant: the arguments go through one static buffer, which holds the
\* arguments of the first thread's call while that call is in progress.
ForwardStatic(r, call, argv) ==
  LET held == IF cur[1].routine = r THEN cur[1].args ELSE argv
  IN  [i \in 1..Len(call.args) |->
         held[IndexOf(Signature[r].params, call.args[i])]]

\* C argument passing: actual i is the value of the parameter it names.
Forward(r, call, argv) ==
  [i \in 1..Len(call.args) |->
     argv[IndexOf(Signature[r].params, call.args[i])]]

\* Variant: the else is missing, so the modern block falls into the legacy
\* call.
InvocationsBoth(r, b, argv, st, v) ==
  IF b = "modern"
  THEN << [sym |-> ModernCall[r].sym,
           args |-> Forward(r, ModernCall[r], argv), status |-> st, ret |-> v],
          [sym |-> LegacyCall[r].sym,
           args |-> Forward(r, LegacyCall[r], argv), status |-> st, ret |-> v] >>
  ELSE << [sym |-> LegacyCall[r].sym,
           args |-> Forward(r, LegacyCall[r], argv), status |-> st, ret |-> v] >>

\* Variant: a failing status makes the wrapper try the other entry point.
InvocationsRetry(r, b, argv, st, v) ==
  LET other == IF b = "modern" THEN "legacy" ELSE "modern"
      first == [sym |-> Target(r, b).sym,
                args |-> Forward(r, Target(r, b), argv),
                status |-> st, ret |-> v]
      again == [sym |-> Target(r, other).sym,
                args |-> Forward(r, Target(r, other), argv),
                status |-> 0, ret |-> v]
  IN  IF st # 0 THEN <<first, again>> ELSE <<first>>

\* The entry-point invocations made by the block that runs, with what each
\* stand-in produced (status st, return value v).
Invocations(r, b, argv, st, v) ==
  << [sym |-> Target(r, b).sym, args |-> Forward(r, Target(r, b), argv),
      status |-> st, ret |-> v] >>

\* A stand-in entry point: writes its status through its info argument and
\* the position number through every other pointer it received.
EntryWrites(m, r, inv) ==
  [a \in DOMAIN m \cup Range(inv.args) |->
     IF a \in Range(inv.args)
     THEN LET i == CHOOSE j \in 1..Len(inv.args) : inv.args[j] = a
          IN  [by |-> inv.sym,
               val |-> IF i = InfoPos(r) THEN inv.status ELSE i]
     ELSE m[a]]

\* Variant: the wrapper resets the status after the call.
EffectClearsInfo(m, r, invs) ==
  LET m1 == EntryWrites(m, r, invs[1])
  IN  [a \in DOMAIN m1 |->
         IF InfoPos(r) > 0 /\ a = invs[1].args[InfoPos(r)]
         THEN [by |-> "wrapper", val |-> 0] ELSE m1[a]]

RECURSIVE Effect(_, _, _)
\* Memory after the wrapper body: only the invoked entry points write.
Effect(m, r, invs) ==
  IF invs = <<>> THEN m
  ELSE Effect(EntryWrites(m, r, Head(invs)), r, Tail(invs))

\* What the wrapper hands back.  A non-void wrapper whose call statement is
\* not a return statement falls off its end: the value the caller reads is
\* indeterminate (g).
WrapperReturn(r, b, invs, g) ==
  IF Signature[r].ret = "void" THEN NoValue
  ELSE IF Target(r, b).returned
       THEN [has |-> TRUE, val |-> invs[Len(invs)].ret]
       ELSE [has |-> TRUE, val |-> g]

StatusesOf(r) == IF InfoPos(r) > 0 THEN Statuses ELSE {0}

CalleeRets(r) == IF Signature[r].ret = "void" THEN {0} ELSE RetVals

Garbage(r, b) ==
  IF Signature[r].ret # "void" /\ ~Target(r, b).returned THEN RetVals ELSE {0}

\* ------------------------------------------------------- initial state
TypeOK ==
  /\ host \in Hosts
  /\ pc \in [Threads -> {"idle", "entered", "selected", "invoked", "returned"}]
  /\ \A t \in Threads : cur[t].routine \in Routines \cup {"none"}
  /\ branch \in [Threads -> {"none", "modern", "legacy"}]
  /\ \A a \in DOMAIN mem : mem[a].val \in Int
  /\ \A t \in Threads : ret[t].val \in RetVals
  /\ mark.routine \in Routines \cup {"none"}
  /\ cached \in {"unset", "modern", "legacy"}

Boot(hosts) ==
  /\ host \in hosts
  /\ pc = [t \in Threads |-> "idle"]
  /\ cur = [t \in Threads |-> NoCall]
  /\ branch = [t \in Threads |-> "none"]
  /\ trace = [t \in Threads |-> <<>>]
  /\ mem = [a \in {} |-> Unset]
  /\ ret = [t \in Threads |-> NoValue]
  /\ mark = NoMark

\* The router of the source keeps nothing from process start.
Start(hosts) == Boot(hosts) /\ cached = "unset"

Init == Start(Hosts)

InitBoundary == Start(BoundaryHosts)

\* ---------------------------------------------------------------- actions
\* One whole call of accelerate_<r> by thread t with argument vector s.
Call(t, r, s, st, v, g) ==
  /\ pc[t] = "idle"
  /\ LET argv == ArgVec(t, s, r)
         b    == Branch(r, host)
         invs == Invocations(r, b, argv, st, v)
     IN  /\ cur' = [cur EXCEPT ![t] = [routine |-> r, args |-> argv]]
         /\ branch' = [branch EXCEPT ![t] = b]
         /\ trace' = [trace EXCEPT ![t] = invs]
         /\ mem' = Effect(Fresh(mem, t, argv), r, invs)
         /\ ret' = [ret EXCEPT ![t] = WrapperReturn(r, b, invs, g)]
  /\ pc' = [pc EXCEPT ![t] = "returned"]
  /\ UNCHANGED <<host, cached, mark>>

\* The same call in steps, for interleaving: entry, ...
Enter(t, r, s) ==
  /\ pc[t] = "idle"
  /\ pc' = [pc EXCEPT ![t] = "entered"]
  /\ cur' = [cur EXCEPT ![t] = [routine |-> r, args |-> ArgVec(t, s, r)]]
  /\ mem' = Fresh(mem, t, ArgVec(t, s, r))
  /\ UNCHANGED <<host, cached, branch, trace, ret, mark>>

\* ... the availability test, ...
Evaluate(t) ==
  /\ pc[t] = "entered"
  /\ pc' = [pc EXCEPT ![t] = "selected"]
  /\ branch' = [branch EXCEPT ![t] = Branch(cur[t].routine, host)]
  /\ UNCHANGED <<host, cached, cur, trace, mem, ret, mark>>

\* ... the call of the selected entry point, ...
Invoke(t, st, v) ==
  /\ pc[t] = "selected"
  /\ LET invs == Invocations(cur[t].routine, branch[t], cur[t].args, st, v)
     IN  /\ trace' = [trace EXCEPT ![t] = invs]
         /\ mem' = Effect(mem, cur[t].routine, invs)
  /\ pc' = [pc EXCEPT ![t] = "invoked"]
  /\ UNCHANGED <<host, cached, cur, branch, ret, mark>>

\* ... and the return to the caller.
Return(t, g) ==
  /\ pc[t] = "invoked"
  /\ pc' = [pc EXCEPT ![t] = "returned"]
  /\ ret' = [ret EXCEPT ![t] =
               WrapperReturn(cur[t].routine, branch[t], trace[t], g)]
  /\ UNCHANGED <<host, cached, cur, branch, trace, mem, mark>>

\* The caller is done with the results of its call; with keep it remembers
\* which routine it called, the block that ran and the capability then.
Release(t, keep) ==
  /\ pc[t] = "returned"
  /\ pc' = [pc EXCEPT ![t] = "idle"]
  /\ cur' = [cur EXCEPT ![t] = NoCall]
  /\ branch' = [branch EXCEPT ![t] = "none"]
  /\ trace' = [trace EXCEPT ![t] = <<>>]
  /\ mem' = Fresh(mem, t, <<>>)
  /\ ret' = [ret EXCEPT ![t] = NoValue]
  /\ mark' = IF keep
             THEN [routine |-> cur[t].routine, branch |-> branch[t],
                   cap |-> Available(host, Gate[cur[t].routine])]
             ELSE mark
  /\ UNCHANGED <<host, cached>>

\* The simulated capability condition is changed between calls.
SetCapability(h) ==
  /\ \A t \in Threads : pc[t] = "idle"
  /\ h # host
  /\ host' = h
  /\ UNCHANGED <<pc, cur, branch, trace, mem, ret, mark, cached>>

\* --------------------------------------------------------- specifications
\* A call of any wrapper, with any argument vector and any outcome of the
\* entry point it reaches.
CallAny(t) ==
  /\ pc[t] = "idle"
  /\ \E r \in Routines, s \in Seeds :
       \E st \in StatusesOf(r), v \in CalleeRets(r) :
         \E g \in Garbage(r, Branch(r, host)) : Call(t, r, s, st, v, g)

\* A single caller, whole calls.
Next ==
  \/ \E t \in SeqThreads : CallAny(t)
  \/ \E t \in SeqThreads : Release(t, FALSE)
  \/ \E h \in Hosts : SetCapability(h)

Spec == Init /\ [][Next]_vars

\* A single caller that may remember one earlier call.
NextHist ==
  \/ \E t \in SeqThreads : CallAny(t)
  \/ \E t \in SeqThreads, keep \in BOOLEAN : Release(t, keep)
  \/ \E h \in BoundaryHosts : SetCapability(h)

SpecHist == InitBoundary /\ [][NextHist]_vars

\* Several threads, calls interleaved step by step.
NextConc ==
  \/ \E t \in Threads :
       /\ pc[t] = "idle"
       /\ \E r \in ConcRoutines, s \in ConcSeeds : Enter(t, r, s)
  \/ \E t \in Threads : Evaluate(t)
  \/ \E t \in Threads :
       /\ pc[t] = "selected"
       /\ \E st \in StatusesOf(cur[t].routine),
             v \in CalleeRets(cur[t].routine) : Invoke(t, st, v)
  \/ \E t \in Threads :
       /\ pc[t] = "invoked"
       /\ \E g \in Garbage(cur[t].routine, branch[t]) : Return(t, g)
  \/ \E t \in Threads : Release(t, FALSE)
  \/ \E h \in BoundaryHosts : SetCapability(h)

SpecConc == InitBoundary /\ [][NextConc]_vars

\* The threshold of the build, shared by the wrappers.
SharedGate == CHOOSE g \in {Gate[r] : r \in Routines} : TRUE

\* A process whose capability condition never changes, with the block a
\* memoizing router would have fixed when the process started.
InitCache ==
  /\ Boot(Hosts)
  /\ cached = (IF Available(host, SharedGate) THEN "modern" ELSE "legacy")

NextCache ==
  \/ \E t \in SeqThreads : CallAny(t)
  \/ \E t \in SeqThreads : Release(t, FALSE)

SpecCache == InitCache /\ [][NextCache]_vars

\* The call a memoizing router makes for routine r: the entry point of the
\* block fixed at start, with the caller's arguments as they are.
CachedRouter(r, argv, st, v) ==
  << [sym |-> IF cached = "modern" THEN ModernCall[r].sym
              ELSE LegacyCall[r].sym,
      args |-> argv, status |-> st, ret |-> v] >>

\* ----------------------------------------------------------------- claims
\* A call of thread t has returned and its caller is looking at the results.
Done(t) == pc[t] = "returned"

\* The capability predicate, written out: macOS 13.3 or later, or a
\* platform the availability test does not name.
CapabilityHolds ==
  \/ host.platform # "macos"
  \/ host.major > 13
  \/ host.major = 13 /\ host.minor >= 3

\* The entry point the capability predicate designates for routine r.
Designated(r) ==
  IF CapabilityHolds THEN ModernCall[r].sym ELSE LegacyCall[r].sym

\* What the caller of thread t finds in the buffer of its i-th argument when
\* the entry point sym, given status st, wrote through the caller's pointers.
Written(t, i, sym, st) ==
  [by |-> sym,
   val |-> IF Signature[cur[t].routine].params[i] = "info" THEN st ELSE i]

\* C1: for every call of every routine, the entry point invoked is the modern
\* one exactly when the capability predicate holds at the call, and the
\* legacy one when it does not.
C1_Dispatch ==
  \A t \in Threads : Done(t) =>
    /\ Len(trace[t]) >= 1
    /\ \A i \in 1..Len(trace[t]) :
         /\ trace[t][i].sym = ModernCall[cur[t].routine].sym <=> CapabilityHolds
         /\ ~CapabilityHolds => trace[t][i].sym = LegacyCall[cur[t].routine].sym

C1_Witness ==
  \E t \in Threads :
    /\ Done(t)
    /\ host = [platform |-> "macos", major |-> 13, minor |-> 3]
    /\ trace[t][1].sym = ModernCall[cur[t].routine].sym

\* C2: a single call executes exactly one of the two entry points, exactly
\* once, and every buffer the caller sees was written by that one alone.
C2_ExactlyOnce ==
  \A t \in Threads : Done(t) =>
    /\ Len(trace[t]) = 1
    /\ trace[t][1].sym \in {ModernCall[cur[t].routine].sym,
                            LegacyCall[cur[t].routine].sym}
    /\ \A a \in Range(cur[t].args) : mem[a].by = trace[t][1].sym

C2_Witness ==
  \E t \in Threads :
    /\ Done(t)
    /\ cur[t].routine = "sgesv"
    /\ Len(trace[t]) = 1
    /\ trace[t][1].sym = "sgesv$LEGACY"

\* C3: a wrapper with a direct return value (sdot, ddot, the getrf and copy
\* families) returns exactly the value its selected entry point returned.
C3_ReturnValue ==
  \A t \in Threads :
    (Done(t) /\ Signature[cur[t].routine].ret # "void") =>
      ret[t] = [has |-> TRUE, val |-> trace[t][Len(trace[t])].ret]

\* C4: after the call, every output buffer and the status the caller sees
\* hold exactly what the selected entry point wrote; the wrapper wrote
\* nothing before or after.
C4_OutputsUntouched ==
  \A t \in Threads : Done(t) =>
    \A i \in 1..Len(cur[t].args) :
      mem[cur[t].args[i]] =
        Written(t, i, trace[t][1].sym, trace[t][1].status)

C4_Witness ==
  \E t \in Threads :
    /\ Done(t)
    /\ cur[t].routine = "sgesdd"
    /\ mem[cur[t].args[14]] = [by |-> "sgesdd_", val |-> 7]
    /\ mem[cur[t].args[6]] = [by |-> "sgesdd_", val |-> 6]

\* C5: the argument vector the selected entry point receives is the
\* caller's vector (same length, values and order), and the two blocks of
\* a routine pass the same vector.
C5_ArgsForwarded ==
  \A t \in Threads : Done(t) =>
    /\ \A i \in 1..Len(trace[t]) : trace[t][i].args = cur[t].args
    /\ Forward(cur[t].routine, ModernCall[cur[t].routine], cur[t].args)
         = Forward(cur[t].routine, LegacyCall[cur[t].routine], cur[t].args)

C5_Witness ==
  \E t \in Threads :
    /\ Done(t)
    /\ cur[t].routine = "cgelsd"
    /\ Len(trace[t][1].args) = 15
    /\ trace[t][1].sym = "cgelsd$LEGACY"

\* C6: the predicate is evaluated on every call: when the capability has
\* been toggled since an earlier call of the same routine, the later call
\* runs the block of the new value, and the caller sees the other
\* stand-in's status and pattern.
C6_Toggle ==
  \A t \in Threads :
    (Done(t) /\ mark.routine = cur[t].routine /\ mark.cap # CapabilityHolds) =>
      /\ branch[t] # mark.branch
      /\ branch[t] = (IF CapabilityHolds THEN "modern" ELSE "legacy")
      /\ Len(trace[t]) = 1
      /\ trace[t][1].sym = Designated(cur[t].routine)
      /\ trace[t][1].sym # Target(cur[t].routine, mark.branch).sym
      /\ \A i \in 1..Len(cur[t].args) :
           mem[cur[t].args[i]] =
             Written(t, i, Designated(cur[t].routine), trace[t][1].status)

C6_Witness ==
  \E t \in Threads :
    /\ Done(t)
    /\ cur[t].routine = "spotrf"
    /\ mark = [routine |-> "spotrf", branch |-> "modern", cap |-> TRUE]
    /\ ~CapabilityHolds
    /\ mem[cur[t].args[5]] = [by |-> "spotrf$LEGACY", val |-> 7]

\* C7: while the capability condition is what it was at an earlier call of a
\* routine, every later call of that routine runs the same block, whatever
\* was called in between, with whatever arguments and statuses.
C7_Deterministic ==
  \A t \in Threads :
    (Done(t) /\ mark.routine = cur[t].routine /\ mark.cap = CapabilityHolds) =>
      /\ branch[t] = mark.branch
      /\ \A i \in 1..Len(trace[t]) :
           trace[t][i].sym = Target(cur[t].routine, mark.branch).sym

C7_Witness ==
  \E t \in Threads :
    /\ Done(t)
    /\ cur[t].routine = "dgeqrf"
    /\ mark = [routine |-> "dgeqrf", branch |-> "legacy", cap |-> FALSE]
    /\ ~CapabilityHolds
    /\ trace[t][1].status = -1
    /\ cur[t].args = ArgVec(t, MaxSeed, "dgeqrf")

\* C8: the wrapper validates nothing and interprets nothing: whatever the
\* arguments, it makes the one indirect call, and a non-zero status written
\* by the designated entry point reaches the caller as written, without
\* retry or a switch to the other entry point.
C8_NoInterpretation ==
  \A t \in Threads : Done(t) =>
    /\ Len(trace[t]) = 1
    /\ trace[t][1].sym = Designated(cur[t].routine)
    /\ \A i \in 1..Len(cur[t].args) :
         (Signature[cur[t].routine].params[i] = "info"
            /\ trace[t][1].status # 0) =>
           mem[cur[t].args[i]] =
             [by |-> Designated(cur[t].routine), val |-> trace[t][1].status]

C8_Witness ==
  \E t \in Threads :
    /\ Done(t)
    /\ cur[t].routine = "dgesv"
    /\ trace[t][1].status = -1
    /\ mem[cur[t].args[8]] = [by |-> "dgesv_", val |-> -1]

\* C9 as stated: on a host platform other than the one the availability
\* test names, the entry point a call resolves to is the legacy one.
C9_LegacyDefault ==
  \A t \in Threads :
    (Done(t) /\ host.platform # "macos") =>
      /\ Len(trace[t]) = 1
      /\ trace[t][1].sym = LegacyCall[cur[t].routine].sym

\* C9 amended: every call resolves to exactly one entry point; it is the
\* legacy one exactly when the host is macOS below 13.3, and on a platform
\* the availability test does not name it is the modern one.
C9_Fallback ==
  \A t \in Threads : Done(t) =>
    /\ Len(trace[t]) = 1
    /\ host.platform # "macos" =>
         trace[t][1].sym = ModernCall[cur[t].routine].sym
    /\ trace[t][1].sym = LegacyCall[cur[t].routine].sym
         <=> /\ host.platform = "macos"
             /\ \/ host.major < 13
                \/ host.major = 13 /\ host.minor < 3

C9_Witness ==
  \E t \in Threads :
    /\ Done(t)
    /\ host = [platform |-> "other", major |-> 12, minor |-> 2]
    /\ trace[t][1].sym = ModernCall[cur[t].routine].sym
    /\ Len(trace[t]) = 1

\* C10: under every interleaving of concurrent calls on disjoint buffers,
\* each call invokes exactly one entry point, the one the capability
\* predicate designates, with its own argument vector, and sees only what
\* its own entry point wrote; nothing in memory comes from the wrapper.
C10_Reentrant ==
  /\ \A t \in Threads : pc[t] \in {"invoked", "returned"} =>
       /\ Len(trace[t]) = 1
       /\ trace[t][1].sym = Designated(cur[t].routine)
       /\ trace[t][1].args = cur[t].args
       /\ \A i \in 1..Len(cur[t].args) :
            mem[cur[t].args[i]] =
              Written(t, i, trace[t][1].sym, trace[t][1].status)
  /\ \A t \in Threads : pc[t] \in {"entered", "selected"} =>
       \A a \in Range(cur[t].args) : mem[a] = Unset
  /\ \A a \in DOMAIN mem : \E t \in Threads : a \in Range(cur[t].args)

C10_Witness ==
  \E t1, t2 \in Threads :
    /\ t1 # t2
    /\ Done(t1)
    /\ pc[t2] = "invoked"
    /\ cur[t1].routine = "sgemm"
    /\ cur[t2].routine = "sgemm"
    /\ trace[t1][1].args # trace[t2][1].args

\* C11: all wrappers gate on the one threshold macOS 13.3: on the host of a
\* call, the block that ran is the block every other routine selects, so no
\* host makes two routines disagree.
C11_SharedThreshold ==
  \A t \in Threads : Done(t) =>
    /\ \A r \in Routines : Branch(r, host) = branch[t]
    /\ \A r \in Routines :
         Gate[r] = [platform |-> "macos", major |-> 13, minor |-> 3]

C11_Witness ==
  \E t \in Threads :
    /\ Done(t)
    /\ cur[t].routine = "sgeev"
    /\ host = [platform |-> "macos", major |-> 13, minor |-> 3]
    /\ branch[t] = "modern"
    /\ Branch("scopy", host) = "modern"
    /\ Branch("zgemm", host) = "modern"

C13_RoutineIdentity ==
  /\ \A r \in Routines :
       /\ ModernCall[r].sym = ModernName(r)
       /\ LegacyCall[r].sym = LegacyName(r)
  /\ \A t \in Threads : Done(t) =>
       \A i \in 1..Len(trace[t]) :
         /\ trace[t][i].sym \in {ModernName(cur[t].routine),
                                 LegacyName(cur[t].routine)}
         /\ \A q \in Routines \ {cur[t].routine} :
              trace[t][i].sym \notin {ModernName(q), LegacyName(q)}

C13_Witness ==
  \E t \in Threads :
    /\ Done(t)
    /\ cur[t].routine = "cdotc"
    /\ trace[t][1].sym = "cdotc$LEGACY"
    /\ trace[t][1].sym # "cdotu$LEGACY"
    /\ mem[cur[t].args[1]] = [by |-> "cdotc$LEGACY", val |-> 1]

====
